---------------------------- MODULE Spec2Model ----------------------------
(***************************************************************************)
(* Boyer-Moore exact matching, the subsequence index and the pigeonhole    *)
(* approximate matchers of algorithms_for_dna_sequencing_week_2.py.        *)
(*                                                                         *)
(* Strings are sequences of symbols.  Offsets are 0-based as in the Python *)
(* source; At(s, i) reads s[i].                                            *)
(***************************************************************************)
EXTENDS Integers, Sequences, FiniteSets, TLC

\* ------------------------------------------------------------ bounds
MaxPatLen == 5
MaxTextLen == 8
MaxAnyShift == 2
MaxAnyPatLen == 2
MaxAnyTextLen == 4
MaxBmPatLen == 6
MaxBmTextLen == 6
MaxBmMismatches == 3
MaxIdxTextLen == 5
MaxQueryLen == 3
MaxK == 3
MaxIval == 2
MaxSeedPatLen == 4
MaxSeedTextLen == 5
MaxSeedMismatches == 2
MaxSeedK == 2
MaxSeedIval == 2

\* The symbols the inputs are drawn from: two of the default 'ACGT'.
Alphabet == {"A", "C"}

\* ------------------------------------------------------------ strings
Ord(c) == CASE c = "A" -> 65 [] c = "C" -> 67 [] c = "G" -> 71 [] OTHER -> 84

Strings(lo, hi) == UNION {[1..n -> Alphabet] : n \in lo..hi}

At(s, i) == s[i + 1]

Min2(a, b) == IF a <= b THEN a ELSE b
Max2(a, b) == IF a >= b THEN a ELSE b
MaxOf(S) == CHOOSE x \in S : \A y \in S : y <= x
MinOf(S) == CHOOSE x \in S : \A y \in S : x <= y

\* s[a:b] for 0 <= a
Slice(s, a, b) == SubSeq(s, a + 1, Min2(b, Len(s)))

Range(s) == {s[n] : n \in 1..Len(s)}

\* sorted(S) for a set of integers
RECURSIVE SortedSeq(_)
SortedSeq(S) == IF S = {} THEN <<>> ELSE <<MinOf(S)>> \o SortedSeq(S \ {MinOf(S)})

\* ------------------------------------------------- preprocessing tables
\* BoyerMoorePreprocessing (utils/boyer_moore_preproc.py): the shift of the
\* bad-character rule (j minus the rightmost position left of j holding c,
\* j + 1 when there is none), of the strong good-suffix rule (the nearest
\* prior occurrence of the matched suffix preceded by another symbol, else
\* the widest border that fits the suffix) and after a match (len(p) minus
\* the longest proper border).
BadCharacterRule(pat, j, c) ==
    LET occ == {n \in 0..(j - 1) : At(pat, n) = c}
    IN  IF occ = {} THEN j + 1 ELSE j - MaxOf(occ)

Borders(pat) == {b \in 0..(Len(pat) - 1) : Slice(pat, 0, b) = Slice(pat, Len(pat) - b, Len(pat))}

GoodSuffixRule(pat, j) ==
    LET n == Len(pat)
        occ == {s \in 1..j : /\ Slice(pat, j + 1 - s, n - s) = Slice(pat, j + 1, n)
                              /\ At(pat, j - s) # At(pat, j)}
    IN  IF occ # {} THEN MinOf(occ)
        ELSE n - MaxOf({b \in Borders(pat) : b <= n - j - 1})

MatchSkip(pat) == Len(pat) - MaxOf(Borders(pat) \cup {0})

\* ------------------------------------------------------- exact matcher
VARIABLES
    p, t, pc,
    \* BoyerMooreExact.query / BoyerMoore.boyer_moore_alignment
    variant, alignment_start_idx, occurrences, num_alignments_tried,
    num_char_comparisons, shift,
    iterations, compared,      \* history: passes of the loop, comparisons made
    \* PigeonHoleApproximateMatching.query_bm
    m, i, partition_length, bm_occurrences, total_hits,
    partitions,                \* history: the partitions exact-matched
    \* SubseqIndex and PigeonHoleApproximateMatching.query_subseq_index
    k, ival, span, index, hits, all_matches, idx_hits,
    budget,                    \* history: m as the caller passed it
    result

exactVars == <<variant, alignment_start_idx, occurrences, num_alignments_tried,
               num_char_comparisons, shift, iterations, compared>>
bmVars == <<partition_length, bm_occurrences, total_hits, partitions>>
idxVars == <<k, ival, span, index, hits, all_matches, idx_hits>>
vars == <<p, t, pc, exactVars, m, i, budget, bmVars, idxVars, result>>

ExactIdle ==
    /\ variant = "none"
    /\ alignment_start_idx = 0
    /\ occurrences = <<>>
    /\ num_alignments_tried = 0
    /\ num_char_comparisons = 0
    /\ shift = 1
    /\ iterations = 0
    /\ compared = 0

BmIdle ==
    /\ partition_length = 0
    /\ bm_occurrences = {}
    /\ total_hits = 0
    /\ partitions = <<>>

IdxIdle ==
    /\ k = 0
    /\ ival = 1
    /\ span = 0
    /\ index = <<>>
    /\ hits = <<>>
    /\ all_matches = {}
    /\ idx_hits = 0

\* Fault: a loop that leaves out the last alignment.
LoopCondStrict(start, pat, txt) == start < Len(txt) - Len(pat)

\* while alignment_start_idx <= (len(t) - len(self.p))
LoopCond(start, pat, txt) == start <= Len(txt) - Len(pat)

\* The inner right-to-left loop: the position of the first mismatch it
\* meets, or -1 when it runs to the end.
MismatchIndex(pat, txt, start) ==
    LET bad == {j \in 0..(Len(pat) - 1) : At(pat, j) # At(txt, start + j)}
    IN  IF bad = {} THEN -1 ELSE MaxOf(bad)

\* Fault: the shift without its floor of 1.
ShiftNoFloor(j, bad, good, skip) ==
    IF j >= 0 THEN Max2(bad, good) ELSE skip

\* Fault: the two rules added up instead of the larger taken.
ShiftSum(j, bad, good, skip) ==
    IF j >= 0 THEN bad + good ELSE Max2(1, skip)

\* shift = 1; shift = max(bad, good, shift) on a mismatch at j,
\* shift = max(shift, match_skip()) on a match (j = -1).
ShiftAt(j, bad, good, skip) ==
    IF j >= 0 THEN Max2(Max2(bad, good), 1) ELSE Max2(1, skip)

\* One pass of the while loop, given what the tables answer.
LoopBody(j, bad, good, skip) ==
    /\ shift' = ShiftAt(j, bad, good, skip)
    /\ occurrences' = IF j = -1 THEN Append(occurrences, alignment_start_idx)
                      ELSE occurrences
    /\ alignment_start_idx' = alignment_start_idx + shift'
    /\ num_alignments_tried' = IF variant = "query" THEN num_alignments_tried + 1
                               ELSE num_alignments_tried
    /\ num_char_comparisons' = num_char_comparisons +
                               (IF j = -1 THEN Len(p) ELSE Len(p) - j)
    /\ iterations' = iterations + 1
    /\ compared' = compared + Cardinality({n \in 0..(Len(p) - 1) : n >= j})
    /\ UNCHANGED <<p, t, variant, pc, m, i, budget, bmVars, idxVars, result>>

ScanStep ==
    /\ pc = "loop"
    /\ LoopCond(alignment_start_idx, p, t)
    /\ LET j == MismatchIndex(p, t, alignment_start_idx)
       IN  LoopBody(j,
                    IF j >= 0 THEN BadCharacterRule(p, j, At(t, alignment_start_idx + j)) ELSE 0,
                    IF j >= 0 THEN GoodSuffixRule(p, j) ELSE 0,
                    IF j = -1 THEN MatchSkip(p) ELSE 0)

\* The same pass with tables that answer anything.
ScanStepAny ==
    /\ pc = "loop"
    /\ LoopCond(alignment_start_idx, p, t)
    /\ \E bad \in 0..MaxAnyShift, good \in 0..MaxAnyShift, skip \in 0..MaxAnyShift :
          LoopBody(MismatchIndex(p, t, alignment_start_idx), bad, good, skip)

\* return occurrences, num_alignments_tried, num_char_comparisons
\* (boyer_moore_alignment first sets num_alignments_tried = alignment_start_idx)
Return ==
    /\ pc = "loop"
    /\ ~LoopCond(alignment_start_idx, p, t)
    /\ pc' = "done"
    /\ num_alignments_tried' = IF variant = "query" THEN num_alignments_tried
                               ELSE alignment_start_idx
    /\ result' = <<occurrences, num_alignments_tried', num_char_comparisons>>
    /\ UNCHANGED <<p, t, variant, alignment_start_idx, occurrences,
                   num_char_comparisons, shift, iterations, compared,
                   m, i, budget, bmVars, idxVars>>

InitScan(pats, txts) ==
    /\ p \in pats
    /\ t \in txts
    /\ variant \in {"query", "boyer_moore_alignment"}
    /\ pc = "loop"
    /\ alignment_start_idx = 0
    /\ occurrences = <<>>
    /\ num_alignments_tried = 0
    /\ num_char_comparisons = 0
    /\ shift = 1
    /\ iterations = 0
    /\ compared = 0
    /\ m = 0 /\ i = 0 /\ budget = 0
    /\ BmIdle /\ IdxIdle
    /\ result = <<>>

Init == InitScan(Strings(0, MaxPatLen), Strings(0, MaxTextLen))
Next == ScanStep \/ Return
Spec == Init /\ [][Next]_vars

InitAny == InitScan(Strings(0, MaxAnyPatLen), Strings(0, MaxAnyTextLen))
NextAny == ScanStepAny \/ Return
SpecAny == InitAny /\ [][NextAny]_vars

\* ------------------------------------------------------------ claims
BruteForce(pat, txt) ==
    {n \in 0..(Len(txt) - Len(pat)) : Slice(txt, n, n + Len(pat)) = pat}

\* C1: for 1 <= len(P) <= len(T) the exact matcher returns exactly the
\* offsets where T[i:i+len(P)] == P, each once and in increasing order.
C1_ExactOccurrences ==
    (pc = "done" /\ 1 <= Len(p) /\ Len(p) <= Len(t))
        => occurrences = SortedSeq(BruteForce(p, t))

C1_Witness ==
    /\ pc = "done"
    /\ Len(p) >= 3
    /\ Len(occurrences) >= 2
    /\ iterations < alignment_start_idx
    /\ occurrences = SortedSeq(BruteForce(p, t))


\* C6: called with an empty pattern or with a pattern longer than the text,
\* the exact matcher returns an empty result without scanning: no occurrence,
\* no alignment tried, no character comparison.
C6_InvalidInputEmptyResult ==
    (pc = "done" /\ (Len(p) = 0 \/ Len(p) > Len(t)))
        => /\ occurrences = <<>>
           /\ num_alignments_tried = 0
           /\ num_char_comparisons = 0
           /\ iterations = 0

\* C7: alignments_tried returned equals the number of passes of the scanning
\* loop and char_comparisons the number of P[j] vs T[start+j] comparisons,
\* for BoyerMooreExact.query and for BoyerMoore.boyer_moore_alignment.
C7_DiagnosticsCountLoop ==
    pc = "done" => /\ num_alignments_tried = iterations
                   /\ num_char_comparisons = compared

\* C8: whatever the tables answer, every pass of the loop advances the start
\* by at least 1, so the start strictly increases, no offset is reported
\* twice and there are at most len(T)-len(P)+1 passes.
C8_ProgressAnyTables ==
    /\ [](/\ iterations > 0 => shift >= 1
          /\ \A a, b \in 1..Len(occurrences) : a < b => occurrences[a] < occurrences[b]
          /\ \A a \in 1..Len(occurrences) : occurrences[a] < alignment_start_idx
          /\ Len(p) <= Len(t) => iterations <= Len(t) - Len(p) + 1
          /\ Len(p) > Len(t) => iterations = 0)
    /\ [][iterations' # iterations =>
            /\ iterations' = iterations + 1
            /\ alignment_start_idx' = alignment_start_idx + shift'
            /\ alignment_start_idx' > alignment_start_idx]_vars

C8_Witness ==
    /\ pc = "done"
    /\ iterations = Len(t) - Len(p) + 1
    /\ iterations >= 3
    /\ Len(occurrences) >= 1
    /\ Len(occurrences) < iterations

\* C9: the shift applied never skips an alignment that matches: whenever the
\* loop is at start s, every occurrence at an offset below s is recorded.
C9_NoOccurrenceSkipped ==
    \A n \in BruteForce(p, t) :
        n < alignment_start_idx => n \in Range(occurrences)

C9_Witness ==
    /\ pc = "loop"
    /\ shift >= 2
    /\ Len(occurrences) >= 1
    /\ \E n \in BruteForce(p, t) : n >= alignment_start_idx


\* ------------------------------------------- query_bm (exact partitions)
\* query(t) run to the end of its loop, from alignment `start` on.
RECURSIVE QueryFrom(_, _, _, _)
QueryFrom(pat, txt, start, occ) ==
    IF LoopCond(start, pat, txt)
    THEN LET j == MismatchIndex(pat, txt, start)
             sh == ShiftAt(j,
                     IF j >= 0 THEN BadCharacterRule(pat, j, At(txt, start + j)) ELSE 0,
                     IF j >= 0 THEN GoodSuffixRule(pat, j) ELSE 0,
                     IF j = -1 THEN MatchSkip(pat) ELSE 0)
         IN  QueryFrom(pat, txt, start + sh,
                       IF j = -1 THEN Append(occ, start) ELSE occ)
    ELSE occ

\* get_occurrences(t) == query(t)[0]
GetOccurrences(pat, txt) == QueryFrom(pat, txt, 0, <<>>)

\* round(n / d): Python 3 rounds a half to the even neighbour.
Round(n, d) ==
    LET q == n \div d
        r == n % d
    IN  IF 2 * r < d THEN q
        ELSE IF 2 * r > d THEN q + 1
        ELSE IF q % 2 = 0 THEN q ELSE q + 1

\* partition_length = int(round(len(p) / (m + 1)))
PartitionLength(pat, mm) == Round(Len(pat), mm + 1)

PartitionStart(n) == n * partition_length
PartitionEnd(n) == Min2(PartitionStart(n) + partition_length, Len(p))

\* for j in range(j, stop): if pat[j] != txt[base + j]: mismatches += 1,
\* leaving the loop once mismatches > limit.
RECURSIVE CountMismatches(_, _, _, _, _, _, _)
CountMismatches(pat, txt, base, j, stop, mismatches, limit) ==
    IF j >= stop THEN mismatches
    ELSE IF At(pat, j) # At(txt, base + j)
         THEN IF mismatches + 1 > limit THEN mismatches + 1
              ELSE CountMismatches(pat, txt, base, j + 1, stop, mismatches + 1, limit)
         ELSE CountMismatches(pat, txt, base, j + 1, stop, mismatches, limit)

\* The validation of one exact hit of the partition [ps, pe): the start it
\* implies when accepted, as a set of at most one offset.
ValidateHit(pat, txt, mm, ps, pe, match) ==
    IF match < ps \/ (match - ps + Len(pat)) > Len(txt) THEN {}
    ELSE LET before == CountMismatches(pat, txt, match - ps, 0, ps, 0, mm)
             total == CountMismatches(pat, txt, match - ps, pe, Len(pat), before, mm)
         IN  IF total <= mm THEN {match - ps} ELSE {}

\* One pass of `for i in range(m + 1)` over a non-empty partition.
PartitionStep ==
    /\ pc = "bm_loop"
    /\ i <= m
    /\ Slice(p, PartitionStart(i), PartitionEnd(i)) # <<>>
    /\ LET sub_p == Slice(p, PartitionStart(i), PartitionEnd(i))
           occurrences_ == GetOccurrences(sub_p, t)
       IN  /\ total_hits' = total_hits + Len(occurrences_)
           /\ bm_occurrences' = bm_occurrences \cup
                UNION {ValidateHit(p, t, m, PartitionStart(i), PartitionEnd(i), occurrences_[n])
                         : n \in 1..Len(occurrences_)}
           /\ partitions' = Append(partitions, <<PartitionStart(i), PartitionEnd(i)>>)
    /\ i' = i + 1
    /\ UNCHANGED <<p, t, pc, exactVars, m, budget, partition_length, idxVars, result>>

\* The loop ends (range exhausted, or `if not sub_p: break`):
\* return sorted(occurrences), total_hits
BmReturn ==
    /\ pc = "bm_loop"
    /\ (i > m \/ Slice(p, PartitionStart(i), PartitionEnd(i)) = <<>>)
    /\ pc' = "bm_done"
    /\ result' = <<SortedSeq(bm_occurrences), total_hits>>
    /\ UNCHANGED <<p, t, exactVars, m, i, budget, bmVars, idxVars>>

InitBm ==
    /\ p \in Strings(1, MaxBmPatLen)
    /\ t \in Strings(0, MaxBmTextLen)
    /\ m \in 0..MaxBmMismatches
    /\ budget = m
    /\ pc = "bm_loop"
    /\ i = 0
    /\ partition_length = PartitionLength(p, m)
    /\ bm_occurrences = {}
    /\ total_hits = 0
    /\ partitions = <<>>
    /\ ExactIdle /\ IdxIdle
    /\ result = <<>>

NextBm == PartitionStep \/ BmReturn
SpecBm == InitBm /\ [][NextBm]_vars

\* Number of positions where pat and txt[n : n + len(pat)] differ.
Hamming(pat, txt, n) == Cardinality({j \in 0..(Len(pat) - 1) : At(pat, j) # At(txt, n + j)})

WithinBudget(pat, txt, mm) ==
    {n \in 0..(Len(txt) - Len(pat)) : Hamming(pat, txt, n) <= mm}

\* C2: for 1 <= len(P) <= len(T) and m >= 0, query_bm returns exactly the
\* offsets whose Hamming distance to P is at most m.
C2_QueryBmExactSet ==
    (pc = "bm_done" /\ 1 <= Len(p) /\ Len(p) <= Len(t))
        => result[1] = SortedSeq(WithinBudget(p, t, m))

\* C10: for len(P) >= m+1, query_bm exact-matches exactly m+1 non-empty,
\* contiguous, pairwise non-overlapping partitions of P, partition n being
\* P[n*L : min((n+1)*L, len(P))]; it never stops early on an empty partition.
C10_AllPartitionsMatched ==
    (pc = "bm_done" /\ Len(p) >= m + 1)
        => /\ Len(partitions) = m + 1
           /\ \A n \in 1..Len(partitions) :
                /\ partitions[n][1] = (n - 1) * partition_length
                /\ partitions[n][2] = Min2(n * partition_length, Len(p))
                /\ partitions[n][1] < partitions[n][2]
                /\ n > 1 => partitions[n][1] = partitions[n - 1][2]


\* ------------------------------------------------------- SubseqIndex
\* A slice bound as Python reads it: negative counts from the end, and
\* the bound is clamped to [0, n].
SliceBound(x, n) == IF x < 0 THEN Max2(x + n, 0) ELSE Min2(x, n)

\* s[a:b:step] for step >= 1
PySlice(s, a, b, step) ==
    LET lo == SliceBound(a, Len(s))
        hi == SliceBound(b, Len(s))
        cnt == IF hi <= lo THEN 0 ELSE ((hi - lo - 1) \div step) + 1
    IN  [x \in 1..cnt |-> s[lo + (x - 1) * step + 1]]

\* str < str
LexLess(x, y) ==
    \/ \E n \in 1..Min2(Len(x), Len(y)) :
          /\ \A j \in 1..(n - 1) : x[j] = y[j]
          /\ Ord(x[n]) < Ord(y[n])
    \/ /\ Len(x) < Len(y)
       /\ \A j \in 1..Len(x) : x[j] = y[j]

\* (subseq, offset) < (subseq, offset)
EntryLess(a, b) == LexLess(a[1], b[1]) \/ (a[1] = b[1] /\ a[2] < b[2])

\* list.sort() of distinct entries
RECURSIVE SortEntries(_)
SortEntries(S) ==
    IF S = {} THEN <<>>
    ELSE LET least == CHOOSE a \in S : \A b \in S \ {a} : EntryLess(a, b)
         IN  <<least>> \o SortEntries(S \ {least})

\* self.span = 1 + ival * (k - 1)
Span(kk, iv) == 1 + iv * (kk - 1)

\* Fault: a range that leaves out the last window.
IndexOffsetsShort(txt, sp) == 0..(Len(txt) - sp - 1)

\* for i in range(len(t) - self.span + 1): append (t[i:i+span:ival], i); sort
IndexOffsets(txt, sp) == 0..(Len(txt) - sp)

BuildIndex(txt, kk, iv) ==
    SortEntries({<<PySlice(txt, n, n + Span(kk, iv), iv), n>> :
                   n \in IndexOffsets(txt, Span(kk, iv))})

\* bisect.bisect_left(a, x)
RECURSIVE BisectLeft(_, _, _, _)
BisectLeft(a, x, lo, hi) ==
    IF lo < hi
    THEN LET mid == (lo + hi) \div 2
         IN  IF EntryLess(At(a, mid), x) THEN BisectLeft(a, x, mid + 1, hi)
             ELSE BisectLeft(a, x, lo, mid)
    ELSE lo

\* while i < len(self.index): stop at the first other subseq, else collect
RECURSIVE CollectHits(_, _, _, _)
CollectHits(idx, subseq, n, acc) ==
    IF n < Len(idx) /\ At(idx, n)[1] = subseq
    THEN CollectHits(idx, subseq, n + 1, Append(acc, At(idx, n)[2]))
    ELSE acc

GetHits(idx, sp, iv, q) ==
    LET subseq == PySlice(q, 0, sp, iv)
    IN  CollectHits(idx, subseq, BisectLeft(idx, <<subseq, -1>>, 0, Len(idx)), <<>>)

\* SubseqIndex(t, k, ival)
Construct ==
    /\ pc = "idx_new"
    /\ span' = Span(k, ival)
    /\ index' = BuildIndex(t, k, ival)
    /\ pc' = "idx_built"
    /\ UNCHANGED <<p, t, exactVars, m, i, budget, bmVars, k, ival, hits,
                   all_matches, idx_hits, result>>

\* get_occurrences(p) == get_hits(p)
GetHitsCall ==
    /\ pc = "idx_built"
    /\ hits' = GetHits(index, span, ival, p)
    /\ result' = hits'
    /\ pc' = "idx_done"
    /\ UNCHANGED <<p, t, exactVars, m, i, budget, bmVars, k, ival, span, index,
                   all_matches, idx_hits>>

InitIndex ==
    /\ t \in Strings(0, MaxIdxTextLen)
    /\ p \in Strings(0, MaxQueryLen)
    /\ k \in 1..MaxK
    /\ ival \in 1..MaxIval
    /\ pc = "idx_new"
    /\ span = 0
    /\ index = <<>>
    /\ hits = <<>>
    /\ all_matches = {}
    /\ idx_hits = 0
    /\ m = 0 /\ i = 0 /\ budget = 0
    /\ ExactIdle /\ BmIdle
    /\ result = <<>>

NextIndex == Construct \/ GetHitsCall
SpecIndex == InitIndex /\ [][NextIndex]_vars

\* The k symbols of s spaced iv apart from offset n on.
Strided(s, n, kk, iv) == [x \in 1..kk |-> s[n + (x - 1) * iv + 1]]

\* C5: the index holds exactly one (subsequence, offset) entry for each
\* offset in [0, len(T)-span], span = 1 + ival*(k-1), sorted by subsequence
\* then offset; get_hits(q) returns exactly the offsets whose strided window
\* equals q[:span:ival], in increasing order (none when q is shorter than span).
C5_IndexAndHits ==
    (pc \in {"idx_built", "idx_done"}) =>
        /\ span = 1 + ival * (k - 1)
        /\ Len(index) = Max2(0, Len(t) - span + 1)
        /\ \A n \in 0..(Len(t) - span) :
              Cardinality({x \in 1..Len(index) : index[x][2] = n}) = 1
        /\ \A x \in 1..Len(index) :
              /\ index[x][2] \in 0..(Len(t) - span)
              /\ index[x][1] = Strided(t, index[x][2], k, ival)
        /\ \A x, y \in 1..Len(index) :
              x < y => \/ LexLess(index[x][1], index[y][1])
                       \/ (index[x][1] = index[y][1] /\ index[x][2] < index[y][2])
        /\ pc = "idx_done" =>
              hits = SortedSeq({n \in 0..(Len(t) - span) :
                                  /\ Len(p) >= span
                                  /\ Strided(t, n, k, ival) = Strided(p, 0, k, ival)})

C5_Witness ==
    /\ pc = "idx_done"
    /\ ival = 2
    /\ k = 2
    /\ Len(hits) >= 2
    /\ Len(hits) < Len(index)
    /\ \E x \in 1..(Len(index) - 1) : index[x][2] > index[x + 1][2]

\* ------------------------------------- query_subseq_index (index seeds)
\* k = max(int(round(len(p) / (m + 1))), int(len(p) / 2))
DefaultK(pat, mm) == Max2(Round(Len(pat), mm + 1), Len(pat) \div 2)

\* if not k: k = default;  p_idx = SubseqIndex(t, k=k, ival=ival)
SeedEnter ==
    /\ pc = "seed_new"
    /\ k' = IF k = 0 THEN DefaultK(p, m) ELSE k
    /\ span' = Span(k', ival)
    /\ index' = BuildIndex(t, k', ival)
    /\ pc' = "seed_loop"
    /\ UNCHANGED <<p, t, exactVars, m, i, budget, bmVars, ival, hits,
                   all_matches, idx_hits, result>>

\* The extension of one index hit for the seed at `start`.  The loop
\* `for m in matches` binds m to the hit, so the hit offset mm is also what
\* `mismatches > m` and `mismatches <= m` compare against.
ExtendHit(pat, txt, start, mm) ==
    IF mm < start \/ mm - start + Len(pat) > Len(txt) THEN {}
    ELSE IF CountMismatches(pat, txt, mm - start, 0, Len(pat), 0, mm) <= mm
         THEN {mm - start} ELSE {}

\* One pass of `for i in range(m + 1)`; the range was fixed on entry.
SeedStep ==
    /\ pc = "seed_loop"
    /\ i <= budget
    /\ hits' = GetHits(index, span, ival, Slice(p, i, Len(p)))
    /\ idx_hits' = idx_hits + Len(hits')
    /\ all_matches' = all_matches \cup
          UNION {ExtendHit(p, t, i, hits'[n]) : n \in 1..Len(hits')}
    /\ m' = IF hits' = <<>> THEN m ELSE hits'[Len(hits')]
    /\ i' = i + 1
    /\ UNCHANGED <<p, t, pc, exactVars, budget, bmVars, k, ival, span, index, result>>

\* return sorted(all_matches), idx_hits
SeedReturn ==
    /\ pc = "seed_loop"
    /\ i > budget
    /\ result' = <<SortedSeq(all_matches), idx_hits>>
    /\ pc' = "seed_done"
    /\ UNCHANGED <<p, t, exactVars, m, i, budget, bmVars, idxVars>>

InitSeed ==
    /\ p \in Strings(1, MaxSeedPatLen)
    /\ t \in Strings(0, MaxSeedTextLen)
    /\ m \in 0..MaxSeedMismatches
    /\ budget = m
    /\ k \in 0..MaxSeedK
    /\ ival \in 1..MaxSeedIval
    /\ pc = "seed_new"
    /\ i = 0
    /\ span = 0
    /\ index = <<>>
    /\ hits = <<>>
    /\ all_matches = {}
    /\ idx_hits = 0
    /\ ExactIdle /\ BmIdle
    /\ result = <<>>

NextSeed == SeedEnter \/ SeedStep \/ SeedReturn
SpecSeed == InitSeed /\ [][NextSeed]_vars

\* C3: every offset query_subseq_index returns is within the caller's budget:
\* its Hamming distance to P is at most m.
C3_SeedResultWithinBudget ==
    pc = "seed_done" =>
        \A n \in Range(result[1]) : Hamming(p, t, n) <= budget

\* C4: for 1 <= len(P) <= len(T), with the default k and ival = 1,
\* query_subseq_index returns every offset whose Hamming distance to P is at
\* most m.
C4_SeedResultComplete ==
    (pc = "seed_done" /\ 1 <= Len(p) /\ Len(p) <= Len(t)
        /\ ival = 1 /\ k = DefaultK(p, budget))
        => WithinBudget(p, t, budget) \subseteq Range(result[1])

=============================================================================
